---- MODULE Spec2Model ----
(***************************************************************************)
(* Namespace runtime of the Gaea proxy (proxy/server/namespace.go):        *)
(* construction of a namespace from its configuration, the backend health  *)
(* supervisor (three checkStatus goroutines per slice), the fingerprint    *)
(* and plan caches, and Close.                                             *)
(*                                                                         *)
(* Strings that the code trims are sequences of one-character strings;     *)
(* other strings are opaque tokens.                                        *)
(***************************************************************************)
EXTENDS Integers, Sequences, FiniteSets, TLC

VARIABLES
    cfg,        \* the *models.Namespace handed to NewNamespace
    ctor,       \* position of NewNamespace
    err,        \* NewNamespace's local variable err (TRUE: non-nil)
    ns,         \* the fields of the Namespace under construction / in use
    built,      \* indexes (into cfg.Slices) of the slices parseSlice has built
    closeCalled,\* slices on which Slice.Close was invoked
    closed,     \* slices whose pools are released
    statusMap,  \* <<slice, role>> -> sequence of StatusCode (DBInfo.StatusMap)
    workers,    \* <<slice, role>> -> local state of the checkStatus goroutine
    ctxDone,    \* the context of checkSlicesStatus has been cancelled
    crashed,    \* an unrecovered panic in a goroutine ended the process
    caches,     \* the five LRU caches of the namespace
    closing,    \* position of Namespace.Close
    preClose,   \* every cache held an entry when Close went on to release
    reply,      \* the last call a session made and what it returned
    session     \* a client session of the proxy and the backend it talks to

vars == <<cfg, ctor, err, ns, built, closeCalled, closed, statusMap, workers,
          ctxDone, crashed, caches, closing, preClose, reply, session>>

----------------------------------------------------------------------------
(* Program constants                                                       *)

namespaceDelayClose == 60
defaultSQLCacheCapacity == 64
defaultPlanCacheCapacity == 128
defaultSlowSQLTime == 1000
defaultMaxSqlExecuteTime == 0
defaultMaxSqlResultSize == 10000
defaultTimeAfterNoAlive == 8
defaultMaxClientConnections == 100000000

UP == "UP"
DOWN == "DOWN"

Roles == {"master", "slave", "statistic"}

----------------------------------------------------------------------------
(* Strings                                                                 *)

RECURSIVE TrimLeft(_)
TrimLeft(s) ==
    IF s = <<>> THEN s
    ELSE IF Head(s) = " " THEN TrimLeft(Tail(s)) ELSE s

RECURSIVE TrimRight(_)
TrimRight(s) ==
    IF s = <<>> THEN s
    ELSE IF s[Len(s)] = " " THEN TrimRight(SubSeq(s, 1, Len(s) - 1)) ELSE s

\* strings.TrimSpace
TrimSpace(s) == TrimRight(TrimLeft(s))

EmptyMap == [k \in {} |-> k]

\* strconv.ParseInt(str, 10, 64) on the decimal strings the configurations use
ParseInt(str) ==
    CASE str = "100" -> [err |-> FALSE, val |-> 100]
      [] str = "0"   -> [err |-> FALSE, val |-> 0]
      [] str = "-1"  -> [err |-> FALSE, val |-> -1]
      [] OTHER       -> [err |-> TRUE, val |-> 0]

----------------------------------------------------------------------------
(* The parse functions of NewNamespace                                     *)

parseSlowSQLTime(str) ==
    IF str = "" THEN [err |-> FALSE, val |-> defaultSlowSQLTime]
    ELSE LET t == ParseInt(str) IN
         IF t.err THEN [err |-> TRUE, val |-> 0]
         ELSE IF t.val < 0 THEN [err |-> TRUE, val |-> 0]
         ELSE [err |-> FALSE, val |-> t.val]

\* the loops of NewNamespace that trim the keys (and values) of the two maps
TrimKeys(m) ==
    [k \in {TrimSpace(d) : d \in DOMAIN m} |->
        m[CHOOSE d \in DOMAIN m : TrimSpace(d) = k]]

TrimKeysAndValues(m) ==
    [k \in {TrimSpace(d) : d \in DOMAIN m} |->
        TrimSpace(m[CHOOSE d \in DOMAIN m : TrimSpace(d) = k])]

parseDefaultPhyDB(defaultPhyDBs, allowedDBs) ==
    IF DOMAIN defaultPhyDBs = {}
    THEN [err |-> FALSE, val |-> [db \in DOMAIN allowedDBs |-> db]]
    ELSE IF \E db \in DOMAIN allowedDBs : db \notin DOMAIN defaultPhyDBs
         THEN [err |-> TRUE, val |-> EmptyMap]
         ELSE [err |-> FALSE, val |-> defaultPhyDBs]

\* util.ParseIPInfo: the address strings of the configurations that parse
ValidIPs == {<<"10.0.0.1">>, <<"10.0.0.0/8">>}

RECURSIVE parseAllowIps(_)
parseAllowIps(allowedIP) ==
    IF allowedIP = <<>> THEN [err |-> FALSE, val |-> <<>>]
    ELSE LET ipStr == TrimSpace(Head(allowedIP))
             rest == parseAllowIps(Tail(allowedIP))
         IN  IF Len(ipStr) = 0 THEN rest
             ELSE IF ipStr \notin ValidIPs THEN [err |-> TRUE, val |-> <<>>]
             ELSE IF rest.err THEN rest
             ELSE [err |-> FALSE, val |-> <<ipStr>> \o rest.val]

\* mysql.CharsetIds, mysql.CollationNames and mysql.VerifyCharset, restricted
\* to the names the configurations use; a collation id is written as the name
\* of its collation
CharsetIds ==
    [c \in {"utf8", "utf8mb4"} |->
        IF c = "utf8" THEN "utf8_general_ci" ELSE "utf8mb4_general_ci"]
CollationNames ==
    [c \in {"utf8_general_ci", "utf8mb4_general_ci", "utf8mb4_bin"} |-> c]
CollationCharset ==
    [c \in DOMAIN CollationNames |-> IF c = "utf8_general_ci" THEN "utf8" ELSE "utf8mb4"]
VerifyCharsetErr(charset, collation) ==
    \/ charset \notin DOMAIN CharsetIds
    \/ collation \notin DOMAIN CollationNames
    \/ CollationCharset[collation] # charset
DefaultCharset == "mysql.DefaultCharset"
DefaultCollationID == "mysql.DefaultCollationID"

parseCharset(charset, collation) ==
    IF charset = "" /\ collation = ""
    THEN [err |-> FALSE, charset |-> DefaultCharset, id |-> DefaultCollationID]
    ELSE IF collation = ""
    THEN IF charset \notin DOMAIN CharsetIds
         THEN [err |-> TRUE, charset |-> "", id |-> ""]
         ELSE [err |-> FALSE, charset |-> charset, id |-> CharsetIds[charset]]
    ELSE IF VerifyCharsetErr(charset, collation)
         THEN [err |-> TRUE, charset |-> "", id |-> ""]
         ELSE IF collation \notin DOMAIN CollationNames
              THEN [err |-> TRUE, charset |-> "", id |-> ""]
              ELSE [err |-> FALSE, charset |-> charset, id |-> CollationNames[collation]]

\* Slice.ParseMaster / Slice.ParseSlave: an endpoint list parses unless it
\* holds a malformed address; one pool per endpoint
BadAddr == "bad"
ParseEndpointsErr(addrs) == \E i \in 1..Len(addrs) : addrs[i] = BadAddr

parseSliceErr(c) ==
    \/ ParseEndpointsErr(c.Master)
    \/ ParseEndpointsErr(c.Slaves)
    \/ ParseEndpointsErr(c.StatisticSlaves)

\* parseSlices, from entry i on; slices maps the trimmed names to the index of
\* the slice built for them, made is the set of slices built so far
RECURSIVE parseSlicesFrom(_, _, _, _)
parseSlicesFrom(cfgSlices, i, slices, made) ==
    IF i > Len(cfgSlices) THEN [err |-> FALSE, slices |-> slices, built |-> made]
    ELSE LET name == TrimSpace(cfgSlices[i].Name) IN
         IF name \in DOMAIN slices
         THEN [err |-> TRUE, slices |-> EmptyMap, built |-> made]
         ELSE IF parseSliceErr(cfgSlices[i])
         THEN [err |-> TRUE, slices |-> EmptyMap, built |-> made]
         ELSE parseSlicesFrom(cfgSlices, i + 1, slices @@ (name :> i), made \cup {i})

parseSlices(cfgSlices) == parseSlicesFrom(cfgSlices, 1, EmptyMap, {})

\* the pools of one role of a configured slice
PoolsOf(c, role) ==
    CASE role = "master" -> c.Master
      [] role = "slave" -> c.Slaves
      [] OTHER -> c.StatisticSlaves

\* router.NewRouter: fails when the default slice is not a slice of the
\* namespace (parseSlices has trimmed the slice names of the configuration)
NewRouterErr(c) ==
    \A i \in 1..Len(c.Slices) : TrimSpace(c.Slices[i].Name) # c.DefaultSlice

----------------------------------------------------------------------------
(* The LRU caches (util/cache): entries most recently used first           *)

CacheKeys(c) == {c[i].key : i \in 1..Len(c)}

RECURSIVE CacheRemove(_, _)
CacheRemove(c, k) ==
    IF c = <<>> THEN c
    ELSE IF Head(c).key = k THEN Tail(c)
    ELSE <<Head(c)>> \o CacheRemove(Tail(c), k)

CacheGet(c, k) ==
    IF k \in CacheKeys(c)
    THEN [ok |-> TRUE, value |-> c[CHOOSE i \in 1..Len(c) : c[i].key = k].value]
    ELSE [ok |-> FALSE, value |-> 0]

CacheSet(c, k, v, capacity) ==
    LET d == <<[key |-> k, value |-> v]>> \o CacheRemove(c, k)
    IN  IF Len(d) > capacity THEN SubSeq(d, 1, capacity) ELSE d

CacheSetIfAbsent(c, k, v, capacity) ==
    IF k \in CacheKeys(c) THEN c ELSE CacheSet(c, k, v, capacity)

CacheClear(c) == <<>>

FingerprintCaches == {"slow", "error", "backendSlow", "backendError"}

NewCaches == [slow |-> <<>>, error |-> <<>>, backendSlow |-> <<>>,
              backendError |-> <<>>, plan |-> <<>>]

----------------------------------------------------------------------------
(* Policy lookups                                                          *)

\* mysql.GetFingerprint on the statements the model uses: letters are put in
\* lower case and a literal becomes a placeholder
FingerprintChar(ch) ==
    CASE ch = "S" -> "s"
      [] ch = "T" -> "t"
      [] ch = "7" -> "?"
      [] ch = "8" -> "?"
      [] OTHER -> ch

GetFingerprint(sql) == [k \in 1..Len(sql) |-> FingerprintChar(sql[k])]

\* mysql.GetMd5: the digest of a string, distinct strings having distinct
\* digests
GetMd5(str) == <<"md5">> \o str

\* the loop of parseBlackSqls over the entries from the first on, sqlMap
\* being the map built so far
RECURSIVE parseBlackSqlsFrom(_, _)
parseBlackSqlsFrom(sqls, sqlMap) ==
    IF sqls = <<>> THEN sqlMap
    ELSE LET sql == TrimSpace(Head(sqls))
             fingerprint == GetFingerprint(sql)
             md5 == GetMd5(fingerprint)
         IN  IF Len(sql) = 0 THEN parseBlackSqlsFrom(Tail(sqls), sqlMap)
             ELSE parseBlackSqlsFrom(Tail(sqls),
                     [k \in DOMAIN sqlMap \cup {md5} |->
                         IF k = md5 THEN fingerprint ELSE sqlMap[k]])

parseBlackSqls(sqls) == parseBlackSqlsFrom(sqls, EmptyMap)

IsSQLAllowed_Raw(n, sql) ==
    IF DOMAIN n.sqls = {} THEN [allowed |-> TRUE, fingerprint |-> "unset"]
    ELSE [allowed |-> GetMd5(sql) \notin DOMAIN n.sqls,
          fingerprint |-> GetFingerprint(sql)]

\* IsSQLAllowed: the answer, and the value left in reqCtx under "fingerprint"
IsSQLAllowed(n, sql) ==
    IF DOMAIN n.sqls = {} THEN [allowed |-> TRUE, fingerprint |-> "unset"]
    ELSE LET fingerprint == GetFingerprint(sql)
             md5 == GetMd5(fingerprint)
         IN  [allowed |-> md5 \notin DOMAIN n.sqls, fingerprint |-> fingerprint]

GetDefaultPhyDB_Identity(n, dbname) ==
    IF dbname = <<>> THEN [phyDB |-> <<>>, err |-> FALSE]
    ELSE IF dbname \notin DOMAIN n.defaultPhyDBs
         THEN [phyDB |-> <<>>, err |-> TRUE]
         ELSE [phyDB |-> dbname, err |-> FALSE]

\* GetDefaultPhyDB: the physical name and whether the error is non-nil
GetDefaultPhyDB(n, dbname) ==
    IF dbname = <<>> THEN [phyDB |-> <<>>, err |-> FALSE]
    ELSE IF dbname \notin DOMAIN n.defaultPhyDBs
         THEN [phyDB |-> <<>>, err |-> TRUE]
         ELSE [phyDB |-> n.defaultPhyDBs[dbname], err |-> FALSE]

----------------------------------------------------------------------------
(* Configurations                                                          *)

MaxSlavePools == 1      \* most slave endpoints of a slice
MaxKeys == 1            \* distinct statements whose plans the sessions cache

s0 == <<"s", "0">>
s1 == <<"s", "1">>
dbA == <<"a">>
dbB == <<"b">>

SlaveLists == {[i \in 1..n |-> "r"] : n \in 1..MaxSlavePools}

SliceCfg(name, master, slaves) ==
    [Name |-> name, Master |-> master, Slaves |-> slaves, StatisticSlaves |-> <<>>]

\* the slice lists: one slice, one slice and its duplicate after trimming, one
\* slice followed by one that does not parse
SliceLists ==
    {<<SliceCfg(<<" ">> \o s0, <<"m">>, sl)>> : sl \in SlaveLists}
    \cup {<<SliceCfg(s0, <<"m">>, <<"r">>), SliceCfg(s0 \o <<" ">>, <<"m">>, <<"r">>)>>,
           <<SliceCfg(s0, <<"m">>, <<"r">>), SliceCfg(s1, <<BadAddr>>, <<"r">>)>>}

Sequence(sliceName) == [SliceName |-> sliceName, DB |-> "db", Table |-> "t", PKName |-> "id"]

BaseCfg ==
    [BlackSQL |-> <<>>,
     SlowSQLTime |-> "",
     AllowedDBS |-> (dbA :> TRUE),
     DefaultPhyDBS |-> EmptyMap,
     AllowedIP |-> <<>>,
     DefaultCharset |-> "",
     DefaultCollation |-> "",
     Slices |-> <<SliceCfg(<<" ">> \o s0, <<"m">>, <<"r">>)>>,
     DefaultSlice |-> s0,
     GlobalSequences |-> <<>>,
     MaxSqlExecuteTime |-> 0,
     MaxSqlResultSize |-> 0,
     MaxClientConnections |-> 0,
     DownAfterNoAlive |-> 0,
     SecondsBehindMaster |-> 0,
     SetForKeepSession |-> FALSE]

SequenceLists == {<<Sequence(s0)>>, <<Sequence(s1)>>, <<Sequence(<<" ">> \o s0)>>}

\* BaseCfg with the shortest probe: the loop of getInstanceStatus ends at once
ShortCfg == [BaseCfg EXCEPT !.DownAfterNoAlive = 1]

\* configurations that differ from ShortCfg in one validated field
FieldVariants ==
    {[ShortCfg EXCEPT !.SlowSQLTime = v] : v \in {"100", "-1", "abc"}}
    \cup {[ShortCfg EXCEPT !.AllowedDBS = (dbA :> TRUE) @@ (dbB :> TRUE),
                          !.DefaultPhyDBS = v] :
            v \in {(dbA :> <<"A">>), (dbA :> <<"A">>) @@ (dbB :> <<"B">>)}}
    \cup {[ShortCfg EXCEPT !.AllowedIP = v] :
            v \in {<<<<" ", "10.0.0.1">>, <<" ">>>>, <<<<"10.0.0.1">>, <<"1.2.3">>>>}}
    \cup {[ShortCfg EXCEPT !.DefaultCharset = v[1], !.DefaultCollation = v[2]] :
            v \in {<<"utf8", "">>, <<"latin9", "">>, <<"utf8", "utf8mb4_bin">>,
                   <<"utf8mb4", "utf8mb4_bin">>}}
    \cup {[ShortCfg EXCEPT !.Slices = v] : v \in SliceLists}
    \cup {[ShortCfg EXCEPT !.DefaultSlice = s1]}
    \cup {[ShortCfg EXCEPT !.GlobalSequences = g] : g \in SequenceLists}

DownAfterChoices == {-1, 0, 1}
BehindChoices == {0, 5}

\* configurations that differ from BaseCfg in the policy numbers
PolicyVariants ==
    {[BaseCfg EXCEPT !.Slices = sl,
                     !.DownAfterNoAlive = d, !.SecondsBehindMaster = b] :
        sl \in {<<SliceCfg(<<" ">> \o s0, <<"m">>, x)>> : x \in SlaveLists},
        d \in DownAfterChoices, b \in BehindChoices}

Configs == FieldVariants \cup PolicyVariants

----------------------------------------------------------------------------
(* State after the composite literal of NewNamespace                       *)

NewNs ==
    [sqls |-> EmptyMap, slowSQLTime |-> 0, maxSqlExecuteTime |-> 0, maxSqlResultSize |-> 0,
     allowedDBs |-> EmptyMap, defaultPhyDBs |-> EmptyMap, allowips |-> <<>>,
     defaultCharset |-> "", defaultCollationID |-> "",
     slices |-> EmptyMap, router |-> FALSE, sequences |-> {},
     maxClientConnections |-> 0, downAfterNoAlive |-> 0,
     secondsBehindMaster |-> 0]

\* no lookup has been made yet
NoReply == [op |-> "none"]

\* no client session is connected
NoSession == [open |-> FALSE]

\* Close has not been called; waited counts the seconds Close has slept
\* and cleared the Clear calls it has made
Idle == [pc |-> "idle", delay |-> FALSE, todo |-> {}, waited |-> 0,
         cleared |-> 0]

InitWith(configs) ==
    /\ cfg \in configs
    /\ ctor = "start"
    /\ err = FALSE
    /\ ns = NewNs
    /\ built = {}
    /\ closeCalled = {}
    /\ closed = {}
    /\ statusMap = EmptyMap
    /\ workers = EmptyMap
    /\ ctxDone = FALSE
    /\ crashed = FALSE
    /\ caches = NewCaches
    /\ closing = Idle
    /\ preClose = FALSE
    /\ reply = NoReply
    /\ session = NoSession

Init == InitWith(Configs)

----------------------------------------------------------------------------
(* Namespace.Close                                                         *)

\* the range of the map namespace.slices
SliceSet(n) == {n.slices[k] : k \in DOMAIN n.slices}

ClearOrder_Three == <<"slow", "error", "backendSlow">>

\* the caches of the four Clear calls that end Close, in the order of the calls
ClearOrder == <<"slow", "error", "backendSlow", "backendError">>

EnterClose_NoSleep(n, delay) ==
    [pc |-> "slices", delay |-> delay, todo |-> SliceSet(n), waited |-> 0,
     cleared |-> 0]

\* entry of Close(delay) on namespace n
EnterClose(n, delay) ==
    [pc |-> IF delay THEN "sleep" ELSE "slices", delay |-> delay,
     todo |-> SliceSet(n), waited |-> 0, cleared |-> 0]

\* Close(delay) is called on a namespace that NewNamespace has returned
CloseCall ==
    /\ ~crashed
    /\ ctor = "ok"
    /\ closing.pc = "idle"
    /\ \E delay \in BOOLEAN :
          /\ closing' = EnterClose(ns, delay)
          /\ preClose' = IF delay THEN preClose
                          ELSE \A c \in DOMAIN caches : caches[c] # <<>>
    /\ UNCHANGED <<cfg, ctor, err, ns, built, closeCalled, closed,
                   statusMap, workers, ctxDone, crashed, caches, reply,
                   session>>

\* time.Sleep(time.Second * namespaceDelayClose) is over
CloseDelayElapsed ==
    /\ ~crashed
    /\ closing.pc = "sleep"
    /\ closing' = [closing EXCEPT !.pc = "slices",
                                  !.waited = @ + namespaceDelayClose]
    /\ preClose' = \A c \in DOMAIN caches : caches[c] # <<>>
    /\ UNCHANGED <<cfg, ctor, err, ns, built, closeCalled, closed,
                   statusMap, workers, ctxDone, crashed, caches, reply,
                   session>>

RemainingAfterClose_Break(todo, i, ok) == IF ok THEN todo \ {i} ELSE {}

\* the slices the loop of Close has yet to visit after Slice.Close on slice i
\* returned (ok: without error); an error is logged and the loop continues
RemainingAfterClose(todo, i, ok) == todo \ {i}

\* one iteration of the loop over n.slices; Slice.Close may return an error
CloseSlice ==
    /\ ~crashed
    /\ closing.pc = "slices"
    /\ \E i \in closing.todo, ok \in BOOLEAN :
          /\ closeCalled' = closeCalled \cup {i}
          /\ closed' = IF ok THEN closed \cup {i} ELSE closed
          /\ closing' = [closing EXCEPT !.todo = RemainingAfterClose(@, i, ok)]
    /\ UNCHANGED <<cfg, ctor, err, ns, built, statusMap, workers, ctxDone,
                   crashed, caches, preClose, reply, session>>

\* the loop is over: the next of the Clear calls.  Each cache takes its own
\* lock for the call, and the sessions run between the calls.
CloseClear ==
    /\ ~crashed
    /\ closing.pc = "slices"
    /\ closing.todo = {}
    /\ closing.cleared < Len(ClearOrder)
    /\ caches' = [caches EXCEPT ![ClearOrder[closing.cleared + 1]] = CacheClear(@)]
    /\ closing' = [closing EXCEPT !.cleared = @ + 1]
    /\ UNCHANGED <<cfg, ctor, err, ns, built, closeCalled, closed, statusMap,
                   workers, ctxDone, crashed, preClose, reply, session>>

\* Close returns after the last Clear call
CloseFinish ==
    /\ ~crashed
    /\ closing.pc = "slices"
    /\ closing.todo = {}
    /\ closing.cleared = Len(ClearOrder)
    /\ closing' = [closing EXCEPT !.pc = "done"]
    /\ ctor' = IF ctor = "deferred" THEN "error" ELSE ctor
    /\ UNCHANGED <<cfg, err, ns, built, closeCalled, closed, statusMap,
                   workers, ctxDone, crashed, caches, preClose, reply, session>>

----------------------------------------------------------------------------
(* NewNamespace                                                            *)

WorkerIds(n) == SliceSet(n) \X Roles

\* DBInfo.StatusMap as ParseMaster / ParseSlave leave it: one entry per pool
NewStatusMap(pools) == [i \in 1..Len(pools) |-> UP]

\* SHOW SLAVE STATUS as the backend answers it: the statement fails, or a row
\* whose Seconds_Behind_Master may be NULL
Row(seconds, null, io, sql) ==
    [execErr |-> FALSE, seconds |-> seconds, null |-> null, io |-> io, sql |-> sql]
NoRow == [execErr |-> TRUE, seconds |-> 0, null |-> TRUE, io |-> "", sql |-> ""]
RawResults ==
    {NoRow, Row(0, FALSE, "Yes", "Yes"), Row(10, FALSE, "Yes", "Yes"),
     Row(9999, FALSE, "No", "Yes"), Row(0, FALSE, "Yes", "No"),
     Row(0, TRUE, "No", "No")}

\* what one pass of the loop body of checkStatus does for a pool: the status
\* getInstanceStatus returned and the local status as it stands, the master
\* status and the threshold (as they were when getInstanceStatus returned,
\* then as the worker read them), the values of secondsBehindMaster read,
\* the answer of the backend (what it would answer, when it is not asked),
\* whether SHOW SLAVE STATUS was issued, the status stored, the connection
\* getInstanceStatus returned and the number of Recycle calls made on it by
\* the end of the loop body; valid once the pass has stored or panicked
NoEval ==
    [valid |-> FALSE, probe |-> UP, status |-> UP, master |-> "none",
     behind |-> 0, thresholds |-> {}, raw |-> NoRow, consulted |-> FALSE,
     stored |-> "none", conn |-> "nil", recycles |-> 0]

\* the locals of getInstanceStatus at its entry, with the times of the
\* attempts and the sleeps of this call, the values of downAfterNoAlive it has
\* read, and whether every attempt so far failed to acquire a connection
NewProbe ==
    [sleepTime |-> 1, conn |-> "nil", err |-> FALSE, attempts |-> <<>>,
     sleeps |-> <<>>, elapsed |-> 0, limits |-> {}, noConn |-> TRUE]

\* a checkStatus goroutine that has not run yet
NewWorker ==
    [pc |-> "select", idx |-> 0, p |-> NewProbe, ev |-> NoEval,
     tickUp |-> FALSE, tickDown |-> FALSE]

\* doCheckSlice starts the three goroutines and returns nil
doCheckSliceErr(i) == FALSE

\* lines 100-185 of NewNamespace: every step up to and including the start of
\* the supervisor; the fields assigned before a failure keep their values
ConstructUntilSupervisor(c) ==
    LET n0 == [NewNs EXCEPT !.sqls = parseBlackSqls(c.BlackSQL)]
        slow == parseSlowSQLTime(c.SlowSQLTime)
        n1 == [n0 EXCEPT !.slowSQLTime = slow.val]
        n2 == [n1 EXCEPT
                 !.maxSqlExecuteTime =
                     IF c.MaxSqlExecuteTime <= 0 THEN defaultMaxSqlExecuteTime
                     ELSE c.MaxSqlExecuteTime,
                 !.maxSqlResultSize =
                     IF c.MaxSqlResultSize <= 0 /\ c.MaxSqlResultSize # -1
                     THEN defaultMaxSqlResultSize ELSE c.MaxSqlResultSize,
                 !.allowedDBs = TrimKeys(c.AllowedDBS)]
        phy == parseDefaultPhyDB(TrimKeysAndValues(c.DefaultPhyDBS), n2.allowedDBs)
        n3 == [n2 EXCEPT !.defaultPhyDBs = phy.val]
        ips == parseAllowIps(c.AllowedIP)
        n4 == [n3 EXCEPT !.allowips = ips.val]
        cs == parseCharset(c.DefaultCharset, c.DefaultCollation)
        n5 == [n4 EXCEPT !.defaultCharset = cs.charset, !.defaultCollationID = cs.id]
        sl == parseSlices(c.Slices)
        n6 == [n5 EXCEPT !.slices = sl.slices]
    IN  IF slow.err THEN [err |-> TRUE, ns |-> n1, built |-> {}, visited |-> 0]
        ELSE IF phy.err THEN [err |-> TRUE, ns |-> n3, built |-> {}, visited |-> 0]
        ELSE IF ips.err THEN [err |-> TRUE, ns |-> n3, built |-> {}, visited |-> 0]
        ELSE IF cs.err THEN [err |-> TRUE, ns |-> n5, built |-> {}, visited |-> 0]
        ELSE [err |-> sl.err, ns |-> n6, built |-> sl.built,
              visited |-> IF sl.err THEN Cardinality(sl.built) + 1
                          ELSE Len(c.Slices)]

\* parseSlices trims, in place, the names of the entries it visits
TrimmedSlices(c, visited) ==
    [i \in 1..Len(c.Slices) |->
        IF i <= visited THEN [c.Slices[i] EXCEPT !.Name = TrimSpace(@)]
        ELSE c.Slices[i]]

NewNamespaceStart ==
    /\ ~crashed
    /\ ctor = "start"
    /\ LET r == ConstructUntilSupervisor(cfg)
       IN  /\ ns' = r.ns
           /\ built' = r.built
           /\ err' = r.err
           /\ cfg' = [cfg EXCEPT !.Slices = TrimmedSlices(cfg, r.visited)]
           /\ IF r.err
              THEN /\ ctor' = "deferred"
                   /\ closing' = EnterClose(r.ns, FALSE)
                   /\ UNCHANGED <<statusMap, workers, ctxDone>>
              ELSE /\ ctor' = "router"
                   /\ statusMap' = [w \in WorkerIds(r.ns) |->
                                       NewStatusMap(PoolsOf(cfg.Slices[w[1]], w[2]))]
                   /\ workers' = [w \in WorkerIds(r.ns) |-> NewWorker]
                   /\ ctxDone' = \E i \in SliceSet(r.ns) : doCheckSliceErr(i)
                   /\ UNCHANGED closing
    /\ UNCHANGED <<closeCalled, closed, crashed, caches, preClose, reply,
                   session>>

\* router.NewRouter
NewNamespaceRouter ==
    /\ ~crashed
    /\ ctor = "router"
    /\ IF NewRouterErr(cfg)
       THEN /\ err' = TRUE
            /\ ctor' = "deferred"
            /\ closing' = EnterClose(ns, FALSE)
            /\ UNCHANGED ns
       ELSE /\ ns' = [ns EXCEPT !.router = TRUE]
            /\ ctor' = "sequences"
            /\ UNCHANGED <<err, closing>>
    /\ UNCHANGED <<cfg, built, closeCalled, closed, statusMap, workers,
                   ctxDone, crashed, caches, preClose, reply, session>>

\* the sequence names registered for the entries of GlobalSequences
SequenceNames(c) ==
    {<<c.GlobalSequences[i].DB, c.GlobalSequences[i].Table>> :
        i \in 1..Len(c.GlobalSequences)}

SequenceSliceFound_Unchecked(n, v) == TRUE

\* namespace.slices[v.SliceName] for the sequence v: whether the key is there
SequenceSliceFound(n, v) == v.SliceName \in DOMAIN n.slices

maxClientConnections_FromConfig(n, c) ==
    IF c.MaxClientConnections <= 0 THEN defaultMaxClientConnections
    ELSE c.MaxClientConnections

\* the value NewNamespace assigns to namespace.maxClientConnections: the test
\* reads the field of the namespace, not the configuration
maxClientConnections(n, c) ==
    IF n.maxClientConnections <= 0 THEN defaultMaxClientConnections
    ELSE c.MaxClientConnections

\* the loop over GlobalSequences and the assignment of maxClientConnections;
\* a sequence of an unknown slice returns an error without assigning err
NewNamespaceSequences ==
    /\ ~crashed
    /\ ctor = "sequences"
    /\ IF \E i \in 1..Len(cfg.GlobalSequences) :
             ~SequenceSliceFound(ns, cfg.GlobalSequences[i])
       THEN /\ ctor' = "error"
            /\ UNCHANGED ns
       ELSE /\ ns' = [ns EXCEPT
                        !.sequences = SequenceNames(cfg),
                        !.maxClientConnections = maxClientConnections(ns, cfg)]
            /\ ctor' = "downAfter"
    /\ UNCHANGED <<cfg, err, built, closeCalled, closed, statusMap, workers,
                   ctxDone, crashed, caches, closing, preClose, reply,
                   session>>

\* namespace.downAfterNoAlive = namespaceConfig.DownAfterNoAlive and the check
\* for a negative value, which returns an error without assigning err
NewNamespaceDownAfter ==
    /\ ~crashed
    /\ ctor = "downAfter"
    /\ ns' = [ns EXCEPT !.downAfterNoAlive = cfg.DownAfterNoAlive]
    /\ ctor' = IF cfg.DownAfterNoAlive < 0 THEN "error" ELSE "default"
    /\ UNCHANGED <<cfg, err, built, closeCalled, closed, statusMap, workers,
                   ctxDone, crashed, caches, closing, preClose, reply,
                   session>>

\* if namespace.downAfterNoAlive == 0, use the default
NewNamespaceDefault ==
    /\ ~crashed
    /\ ctor = "default"
    /\ ns' = [ns EXCEPT !.downAfterNoAlive =
                 IF @ = 0 THEN defaultTimeAfterNoAlive ELSE @]
    /\ ctor' = "finish"
    /\ UNCHANGED <<cfg, err, built, closeCalled, closed, statusMap, workers,
                   ctxDone, crashed, caches, closing, preClose, reply,
                   session>>

\* secondsBehindMaster, CheckSelectLock and return namespace, nil
NewNamespaceFinish ==
    /\ ~crashed
    /\ ctor = "finish"
    /\ ns' = [ns EXCEPT !.secondsBehindMaster = cfg.SecondsBehindMaster]
    /\ ctor' = "ok"
    /\ UNCHANGED <<cfg, err, built, closeCalled, closed, statusMap, workers,
                   ctxDone, crashed, caches, closing, preClose, reply,
                   session>>

----------------------------------------------------------------------------
(* The health supervisor                                                   *)

AttemptOutcomes == {"getFail", "pingOK", "reconnectOK", "bothFail"}

\* one pass of the loop body of getInstanceStatus, with the post statement
\* sleepTime *= 2 when the body does not break
LoopIteration(p, o) ==
    LET q == [p EXCEPT !.attempts = Append(@, p.elapsed)]
        slept == [q EXCEPT !.sleeps = Append(@, p.sleepTime),
                           !.elapsed = @ + p.sleepTime,
                           !.sleepTime = @ * 2]
    IN  CASE o = "getFail" -> [slept EXCEPT !.conn = "nil", !.err = TRUE]
          [] o = "bothFail" ->
                [slept EXCEPT !.conn = "recycled", !.err = TRUE, !.noConn = FALSE]
          [] OTHER -> [q EXCEPT !.conn = "held", !.err = FALSE, !.noConn = FALSE]

LoopCondition_Inclusive(sleepTime, downAfterNoAlive) ==
    sleepTime <= downAfterNoAlive

\* the condition of the loop of getInstanceStatus
LoopCondition(sleepTime, downAfterNoAlive) == sleepTime < downAfterNoAlive

InstanceStatus_Early(p, downAfterNoAlive) ==
    IF p.err \/ p.sleepTime * 2 >= downAfterNoAlive THEN DOWN ELSE UP

\* the status getInstanceStatus returns
InstanceStatus(p, downAfterNoAlive) ==
    IF p.err \/ p.sleepTime >= downAfterNoAlive THEN DOWN ELSE UP

masterIsDown_NoGate(masterStatus) == FALSE

\* the second return of shouldCheckSlaveDataSyncStatus, on the master status
\* it loads
masterIsDown(masterStatus) == masterStatus = DOWN

shouldCheckSlaveDataSyncStatus(behind, crruentStatus, masterStatus, isMaster) ==
    IF isMaster \/ crruentStatus = UP THEN FALSE
    ELSE IF masterIsDown(masterStatus) THEN FALSE
    ELSE behind # 0

\* GetSlaveStatus: a column that is not of the expected type reads as 0 / "No"
GetSlaveStatus(raw) ==
    [err |-> raw.execErr,
     SecondsBehindMaster |-> IF raw.execErr \/ raw.null THEN 0 ELSE raw.seconds,
     SlaveIORunning |-> raw.io,
     SlaveSQLRunning |-> raw.sql]

slaveIsLagBehand(raw, behind) ==
    LET slaveStatus == GetSlaveStatus(raw) IN
    IF slaveStatus.err THEN FALSE
    ELSE IF slaveStatus.SecondsBehindMaster > behind THEN TRUE
    ELSE IF slaveStatus.SlaveIORunning # "Yes" THEN TRUE
    ELSE slaveStatus.SlaveSQLRunning # "Yes"

\* the status after the lag check
StatusAfterLagCheck(status, lag) == IF lag THEN DOWN ELSE status

\* slice.Master.StatusMap.Load(0)
MasterStatus(i) ==
    IF Len(statusMap[<<i, "master">>]) >= 1 THEN statusMap[<<i, "master">>][1]
    ELSE "none"

Pools(w) == PoolsOf(cfg.Slices[w[1]], w[2])

\* the select at the top of the loop of checkStatus: return when the context
\* is cancelled, otherwise start the pass over the pools (with no pool, the
\* pass is empty and the goroutine sleeps and comes back here)
CheckSelect(w) ==
    /\ ~crashed
    /\ workers[w].pc = "select"
    /\ workers' = [workers EXCEPT ![w] =
          IF ctxDone THEN [@ EXCEPT !.pc = "exited"]
          ELSE IF Pools(w) = <<>> THEN @
          ELSE [pc |-> "probe", idx |-> 1, p |-> NewProbe, ev |-> NoEval,
                tickUp |-> TRUE, tickDown |-> TRUE]]
    /\ UNCHANGED <<cfg, ctor, err, ns, built, closeCalled, closed,
                   statusMap, ctxDone, crashed, caches, closing, preClose,
                   reply, session>>

\* the loop of getInstanceStatus: test sleepTime against downAfterNoAlive and
\* either leave the loop or make one attempt on the pool; a released pool
\* gives no connection
ProbeLoop(w) ==
    /\ ~crashed
    /\ workers[w].pc = "probe"
    /\ LET me == workers[w]
           limit == ns.downAfterNoAlive
           p == [me.p EXCEPT !.limits = @ \cup {limit}]
       IN  IF LoopCondition(p.sleepTime, limit)
           THEN \E o \in IF w[1] \in closed THEN {"getFail"} ELSE AttemptOutcomes :
                   LET q == LoopIteration(p, o) IN
                   workers' = [workers EXCEPT ![w] =
                      [me EXCEPT !.p = q, !.ev = NoEval,
                                 !.pc = IF q.err THEN "probe" ELSE "classify"]]
           ELSE workers' = [workers EXCEPT ![w] =
                      [me EXCEPT !.p = p, !.ev = NoEval, !.pc = "classify"]]
    /\ UNCHANGED <<cfg, ctor, err, ns, built, closeCalled, closed,
                   statusMap, ctxDone, crashed, caches, closing, preClose,
                   reply, session>>

\* replication as the claims speak of it: SHOW SLAVE STATUS answers and
\* reports no lag above the threshold and both threads running
Healthy(raw, behind) == ~raw.execErr /\ ~slaveIsLagBehand(raw, behind)

\* the Recycle calls on the connection getInstanceStatus returns: the one of
\* its loop when ping and reconnect failed, and the one of checkStatus on a
\* connection that is not nil
Recycles(conn) ==
    (IF conn = "recycled" THEN 1 ELSE 0) + (IF conn # "nil" THEN 1 ELSE 0)

StoreStatus_SlaveGroup(sm, w, idx, status) ==
    [sm EXCEPT ![<<w[1], "slave">>] =
        [k \in DOMAIN @ |-> IF k = idx THEN status ELSE @[k]]]

\* slaveInfo.StatusMap.Store(idx, status) by the goroutine w
StoreStatus(sm, w, idx, status) == [sm EXCEPT ![w][idx] = status]

\* the end of getInstanceStatus, which reads downAfterNoAlive once more when
\* err is nil, and the first test of shouldCheckSlaveDataSyncStatus; of the
\* locals of getInstanceStatus the status and the connection are returned
Classify(w) ==
    /\ ~crashed
    /\ workers[w].pc = "classify"
    /\ LET me == workers[w]
           limit == ns.downAfterNoAlive
           p == IF me.p.err THEN me.p
                ELSE [me.p EXCEPT !.limits = @ \cup {limit}]
           status == InstanceStatus(p, limit)
       IN  workers' = [workers EXCEPT ![w] =
              [me EXCEPT
                 !.p = [NewProbe EXCEPT !.limits = p.limits],
                 !.tickUp = @ /\ ~p.err /\ p.conn = "held",
                 !.tickDown = @ /\ p.err /\ p.attempts # <<>>,
                 !.ev = [NoEval EXCEPT !.probe = status, !.status = status,
                                       !.master = IF w[2] = "master" THEN "none"
                                                  ELSE MasterStatus(w[1]),
                                       !.behind = IF w[2] = "master" THEN 0
                                                  ELSE ns.secondsBehindMaster,
                                       !.conn = p.conn],
                 !.pc = IF w[2] = "master" \/ status = UP
                        THEN "store" ELSE "gate"]]
    /\ UNCHANGED <<cfg, ctor, err, ns, built, closeCalled, closed,
                   statusMap, ctxDone, crashed, caches, closing, preClose,
                   reply, session>>

\* slice.Master.StatusMap.Load(0) in shouldCheckSlaveDataSyncStatus
LoadMaster(w) ==
    /\ ~crashed
    /\ workers[w].pc = "gate"
    /\ LET master == MasterStatus(w[1]) IN
       workers' = [workers EXCEPT ![w] =
          [@ EXCEPT !.ev.master = master,
                    !.pc = IF masterIsDown(master) THEN "store" ELSE "behind"]]
    /\ UNCHANGED <<cfg, ctor, err, ns, built, closeCalled, closed,
                   statusMap, ctxDone, crashed, caches, closing, preClose,
                   reply, session>>

\* return namespace.secondsBehindMaster != 0
ReadBehind(w) ==
    /\ ~crashed
    /\ workers[w].pc = "behind"
    /\ LET me == workers[w]
           behind == ns.secondsBehindMaster
           should == shouldCheckSlaveDataSyncStatus(behind, me.ev.status,
                                                    me.ev.master, w[2] = "master")
       IN  workers' = [workers EXCEPT ![w] =
              [me EXCEPT !.ev.behind = behind,
                         !.ev.thresholds = @ \cup {behind},
                         !.pc = IF should THEN "lag" ELSE "store"]]
    /\ UNCHANGED <<cfg, ctor, err, ns, built, closeCalled, closed,
                   statusMap, ctxDone, crashed, caches, closing, preClose,
                   reply, session>>

\* slaveIsLagBehand(conn, namespace): SHOW SLAVE STATUS on the connection
\* getInstanceStatus returned, and when it answers the comparison with
\* secondsBehindMaster as it is then.  On a nil connection the call panics,
\* and nothing recovers a panic of this goroutine.
LagCheck(w) ==
    /\ ~crashed
    /\ workers[w].pc = "lag"
    /\ LET me == workers[w]
           behind == ns.secondsBehindMaster
       IN  IF me.ev.conn = "nil"
           THEN /\ crashed' = TRUE
                /\ workers' = [workers EXCEPT ![w] =
                      [me EXCEPT !.pc = "panic", !.ev.valid = TRUE,
                                 !.ev.consulted = TRUE]]
           ELSE /\ \E raw \in RawResults :
                      workers' = [workers EXCEPT ![w] =
                         [me EXCEPT
                            !.pc = "store",
                            !.ev.raw = raw,
                            !.ev.consulted = TRUE,
                            !.ev.behind = IF raw.execErr THEN @ ELSE behind,
                            !.ev.thresholds =
                                IF raw.execErr THEN @ ELSE @ \cup {behind},
                            !.ev.status =
                                StatusAfterLagCheck(@, slaveIsLagBehand(raw, behind))]]
                /\ UNCHANGED crashed
    /\ UNCHANGED <<cfg, ctor, err, ns, built, closeCalled, closed, statusMap,
                   ctxDone, caches, closing, preClose, reply, session>>

\* the end of the loop body of checkStatus for one pool: Recycle and
\* StatusMap.Store, and after the last pool time.Sleep(2 * time.Second); a
\* slave that was not asked would have answered in step, or behind
RecycleAndStore(w) ==
    /\ ~crashed
    /\ workers[w].pc = "store"
    /\ LET me == workers[w]
           isMaster == w[2] = "master"
           last == me.idx >= Len(Pools(w))
       IN  \E raw \in IF me.ev.consulted THEN {me.ev.raw}
                      ELSE IF isMaster THEN {NoRow}
                      ELSE {Row(0, FALSE, "Yes", "Yes"),
                            Row(9999, FALSE, "No", "Yes")} :
             /\ statusMap' = StoreStatus(statusMap, w, me.idx, me.ev.status)
             /\ workers' = [workers EXCEPT ![w] =
                   [pc |-> IF last THEN "select" ELSE "probe",
                    idx |-> IF last THEN me.idx ELSE me.idx + 1,
                    p |-> NewProbe,
                    ev |-> [me.ev EXCEPT !.valid = TRUE, !.raw = raw,
                                         !.stored = me.ev.status,
                                         !.recycles = Recycles(me.ev.conn)],
                    tickUp |-> me.tickUp
                               /\ (isMaster \/ me.ev.behind = 0
                                   \/ Healthy(raw, me.ev.behind)),
                    tickDown |-> me.tickDown]]
    /\ UNCHANGED <<cfg, ctor, err, ns, built, closeCalled, closed, ctxDone,
                   crashed, caches, closing, preClose, reply, session>>

Select == \E w \in DOMAIN workers : CheckSelect(w)
Probe == \E w \in DOMAIN workers : ProbeLoop(w)
Status == \E w \in DOMAIN workers : Classify(w)
Gate == \E w \in DOMAIN workers : LoadMaster(w)
Threshold == \E w \in DOMAIN workers : ReadBehind(w)
Lag == \E w \in DOMAIN workers : LagCheck(w)
Store == \E w \in DOMAIN workers : RecycleAndStore(w)

Supervisor == Select \/ Probe \/ Status \/ Gate \/ Threshold \/ Lag \/ Store

Construction ==
    \/ NewNamespaceStart \/ NewNamespaceRouter \/ NewNamespaceSequences
    \/ NewNamespaceDownAfter \/ NewNamespaceDefault \/ NewNamespaceFinish

Close ==
    CloseCall \/ CloseDelayElapsed \/ CloseSlice \/ CloseClear \/ CloseFinish

Next == Construction \/ Supervisor \/ Close

Spec == Init /\ [][Next]_vars

\* the supervisor of a namespace built with each downAfterNoAlive up to
\* MaxDownAfter (0 stands for the default); Close is left unscheduled
MaxDownAfter == 6
ProbeConfigs ==
    {[BaseCfg EXCEPT !.DownAfterNoAlive = d, !.SecondsBehindMaster = b] :
        d \in 0..MaxDownAfter, b \in BehindChoices}
ProbeInit == InitWith(ProbeConfigs)
ProbeNext == Construction \/ Supervisor
ProbeSpec == ProbeInit /\ [][ProbeNext]_vars

\* the same under the scheduler of the runtime: NewNamespace runs on, and
\* every goroutine that can take a step eventually takes one
Goroutines == {<<1, r>> : r \in Roles}
GoroutineStep(w) ==
    /\ w \in DOMAIN workers
    /\ \/ CheckSelect(w) \/ ProbeLoop(w) \/ Classify(w) \/ LoadMaster(w)
       \/ ReadBehind(w) \/ LagCheck(w) \/ RecycleAndStore(w)
LiveSpec ==
    /\ ProbeInit /\ [][ProbeNext]_vars
    /\ WF_vars(Construction)
    /\ \A w \in Goroutines : WF_vars(GoroutineStep(w))

----------------------------------------------------------------------------
(* The cache operations of the sessions.  A session that holds the         *)
(* namespace calls them whenever it runs: before Close, while Close sleeps, *)
(* loops or clears, and after Close has returned.                          *)

Plans == {"p1", "p2"}

InUse == ~crashed /\ ctor = "ok"

\* SetSlowSQLFingerprint, SetErrorSQLFingerprint, SetBackendSlowSQLFingerprint
\* and SetBackendErrorSQLFingerprint
SetFingerprint ==
    /\ InUse
    /\ \E c \in FingerprintCaches, md5 \in {1} :
          caches' = [caches EXCEPT ![c] =
                        CacheSet(@, md5, "fingerprint", defaultSQLCacheCapacity)]
    /\ UNCHANGED <<cfg, ctor, err, ns, built, closeCalled, closed,
                   statusMap, workers, ctxDone, crashed, closing, preClose,
                   reply, session>>

\* ClearSlowSQLFingerprints and its three siblings
ClearFingerprints ==
    /\ InUse
    /\ \E c \in FingerprintCaches :
          /\ caches[c] # <<>>
          /\ caches' = [caches EXCEPT ![c] = CacheClear(@)]
    /\ UNCHANGED <<cfg, ctor, err, ns, built, closeCalled, closed,
                   statusMap, workers, ctxDone, crashed, closing, preClose,
                   reply, session>>

\* the databases and the statements whose plans the sessions cache
PlanDBs == {dbA}
PlanSQLs == {[j \in 1..i |-> "q"] : i \in 1..MaxKeys}

\* the cache key db + "|" + sql
PlanKey(db, sql) == db \o <<"|">> \o sql

PlanCacheAfterSet_Overwrite(c, db, sql, p) ==
    CacheSet(c, PlanKey(db, sql), p, defaultPlanCacheCapacity)

\* the plan cache after SetCachedPlan(db, sql, p)
PlanCacheAfterSet(c, db, sql, p) ==
    CacheSetIfAbsent(c, PlanKey(db, sql), p, defaultPlanCacheCapacity)

SetCachedPlan ==
    /\ InUse
    /\ \E db \in PlanDBs, sql \in PlanSQLs, plan \in Plans :
          /\ caches' = [caches EXCEPT !.plan = PlanCacheAfterSet(@, db, sql, plan)]
          /\ reply' = [op |-> "SetCachedPlan", db |-> db, sql |-> sql,
                       plan |-> plan]
    /\ UNCHANGED <<cfg, ctor, err, ns, built, closeCalled, closed,
                   statusMap, workers, ctxDone, crashed, closing, preClose,
                   session>>

\* GetCachedPlan: the plan and whether the key is cached; a hit makes the
\* entry the most recently used
GetCachedPlan ==
    /\ InUse
    /\ \E db \in PlanDBs, sql \in PlanSQLs :
          LET v == CacheGet(caches.plan, PlanKey(db, sql)) IN
          /\ reply' = [op |-> "GetCachedPlan", db |-> db, sql |-> sql,
                       ok |-> v.ok, plan |-> IF v.ok THEN v.value ELSE "nil"]
          /\ caches' = IF v.ok
                       THEN [caches EXCEPT !.plan =
                               CacheSet(@, PlanKey(db, sql), v.value,
                                        defaultPlanCacheCapacity)]
                       ELSE caches
    /\ UNCHANGED <<cfg, ctor, err, ns, built, closeCalled, closed,
                   statusMap, workers, ctxDone, crashed, closing, preClose,
                   session>>

Sessions ==
    SetFingerprint \/ ClearFingerprints \/ SetCachedPlan \/ GetCachedPlan

\* the namespace, its sessions and Close; the supervisor goroutines, which
\* touch no cache, are left unscheduled
TwoSlices == <<SliceCfg(s0, <<"m">>, <<"r">>), SliceCfg(s1, <<"m">>, <<"r">>)>>
CacheInit == InitWith({BaseCfg, [BaseCfg EXCEPT !.Slices = TwoSlices]})
CacheNext == Construction \/ Sessions \/ Close
CacheSpec == CacheInit /\ [][CacheNext]_vars

----------------------------------------------------------------------------
(* The policy lookups of the sessions                                      *)

sqlQ == <<"s", "=", "?">>
sqlL == <<"S", "=", "7">>
sqlO == <<"t">>
blank == <<" ", " ">>

\* the blacklists of the configurations and the statements looked up
BlackLists ==
    {<<>>, <<blank>>, <<<<" ">> \o sqlQ \o <<" ">>>>, <<sqlL, blank>>,
     <<sqlO, sqlQ>>}
SQLTexts == {sqlQ, sqlL, sqlO, <<"S", "=", "8">>, <<" ">> \o sqlQ, <<>>, <<"T">>}

\* the database maps of the configurations and the names looked up
DBMaps ==
    {<<(dbA :> TRUE), EmptyMap>>,
     <<(<<" ">> \o dbA :> TRUE) @@ (dbB :> FALSE), EmptyMap>>,
     <<(dbA :> TRUE), (dbA \o <<" ">> :> <<" ", "A">>)>>,
     <<(dbA :> TRUE) @@ (dbB :> TRUE), (dbA :> <<"A">>) @@ (dbB :> dbA)>>,
     <<(dbA :> TRUE), (dbA :> <<"A">>) @@ (<<"c">> :> <<"C">>)>>,
     <<(dbA :> TRUE) @@ (dbB :> TRUE), (dbA :> <<"A">>)>>}
DBNames == {<<>>, dbA, dbB, <<"c">>, <<" ">> \o dbA, <<"A">>}

\* the values of MaxClientConnections of the configurations
ClientConnectionLimits == {-1, 0, 5, defaultMaxClientConnections + 1}

LookupConfigs ==
    {[BaseCfg EXCEPT !.BlackSQL = b] : b \in BlackLists}
    \cup {[BaseCfg EXCEPT !.AllowedDBS = m[1], !.DefaultPhyDBS = m[2]] : m \in DBMaps}
    \cup {[BaseCfg EXCEPT !.MaxClientConnections = m] : m \in ClientConnectionLimits}

\* a session asks whether a statement is allowed
IsSQLAllowedCall ==
    /\ InUse
    /\ \E sql \in SQLTexts :
          LET r == IsSQLAllowed(ns, sql) IN
          reply' = [op |-> "IsSQLAllowed", sql |-> sql, allowed |-> r.allowed,
                    fingerprint |-> r.fingerprint]
    /\ UNCHANGED <<cfg, ctor, err, ns, built, closeCalled, closed,
                   statusMap, workers, ctxDone, crashed, caches, closing,
                   preClose, session>>

\* a session asks for the physical database of a name
GetDefaultPhyDBCall ==
    /\ InUse
    /\ \E dbname \in DBNames :
          LET r == GetDefaultPhyDB(ns, dbname) IN
          reply' = [op |-> "GetDefaultPhyDB", dbname |-> dbname,
                    phyDB |-> r.phyDB, err |-> r.err]
    /\ UNCHANGED <<cfg, ctor, err, ns, built, closeCalled, closed,
                   statusMap, workers, ctxDone, crashed, caches, closing,
                   preClose, session>>

Lookups == IsSQLAllowedCall \/ GetDefaultPhyDBCall

\* the namespace and the lookups of its sessions; the supervisor goroutines,
\* which no lookup reads, are left unscheduled
LookupInit == InitWith(LookupConfigs)
LookupNext == Construction \/ Lookups
LookupSpec == LookupInit /\ [][LookupNext]_vars

----------------------------------------------------------------------------
(* A client session and the backend connections it executes on.  The       *)
(* session takes a connection for a statement and keeps it afterwards      *)
(* inside an explicit transaction or when the namespace is configured to   *)
(* keep sessions; otherwise the connection goes back to its pool.  The     *)
(* pool of the master is the one the supervisor probes through and other   *)
(* sessions execute on, and its size is a setting of the slice: which of   *)
(* its idle connections the next Get hands out is not for the session to   *)
(* decide.  The pools of a namespace are built with it, so that no         *)
(* connection has run a statement before the first session connects.       *)

MaxStatements == 5      \* most statements a client session issues
PoolCapacity == 2       \* most backend connections of the master pool

XAER_RMFAIL == 1399

Statements ==
    {"xa start", "insert", "xa end", "xa prepare", "xa commit", "begin", "commit"}

NoError == [code |-> 0, state |-> ""]
\* the command cannot be executed when global transaction is in this state
RMFail(state) == [code |-> XAER_RMFAIL, state |-> state]
\* any other error of the backend
OtherError == [code |-> -1, state |-> ""]

Conns == 1..PoolCapacity

\* the session after the client has connected, over a pool of capacity
\* connections, all idle
NewSession(keep, capacity) ==
    [open |-> TRUE, keep |-> keep, issued |-> <<>>, used |-> <<>>, errs |-> <<>>,
     held |-> 0, inTx |-> FALSE, pool |-> 1..capacity,
     state |-> [c \in Conns |-> "NON-EXISTING"],
     pending |-> [c \in Conns |-> {}], rows |-> {}]

\* the backend executes stmt on a connection whose transaction state is st
\* ("LOCAL": a local transaction is open), with uncommitted rows pend
Backend(st, pend, stmt) ==
    LET xa == IF st = "LOCAL" THEN "NON-EXISTING" ELSE st
        ok(st2, pend2, commit) ==
            [state |-> st2, pending |-> pend2, commit |-> commit, err |-> NoError]
        fail(e) == [state |-> st, pending |-> pend, commit |-> {}, err |-> e]
    IN  CASE stmt = "xa start" ->
                IF st = "NON-EXISTING" THEN ok("ACTIVE", pend, {})
                ELSE IF st = "LOCAL" THEN fail(OtherError)
                ELSE fail(RMFail(st))
          [] stmt = "xa end" ->
                IF st = "ACTIVE" THEN ok("IDLE", pend, {}) ELSE fail(RMFail(xa))
          [] stmt = "xa prepare" ->
                IF st = "IDLE" THEN ok("PREPARED", pend, {}) ELSE fail(RMFail(xa))
          [] stmt = "xa commit" ->
                IF st = "PREPARED" THEN ok("NON-EXISTING", {}, pend)
                ELSE IF xa = "NON-EXISTING" THEN fail(OtherError)
                ELSE fail(RMFail(xa))
          [] stmt = "insert" ->
                IF st = "NON-EXISTING" THEN ok(st, pend, {"row"})
                ELSE IF st \in {"LOCAL", "ACTIVE"} THEN ok(st, pend \cup {"row"}, {})
                ELSE fail(RMFail(st))
          [] stmt = "begin" ->
                IF st \in {"NON-EXISTING", "LOCAL"} THEN ok("LOCAL", {}, pend)
                ELSE fail(RMFail(st))
          [] OTHER ->
                IF st \in {"NON-EXISTING", "LOCAL"} THEN ok("NON-EXISTING", {}, pend)
                ELSE fail(RMFail(st))

HoldsConnection_OnlyInTx(keep, inTx) == inTx

HoldsConnection_Always(keep, inTx) == TRUE

\* whether the session keeps its backend connection after a statement
HoldsConnection(keep, inTx) == keep \/ inTx

\* the statement ends a transaction
Boundary(stmt, e) == stmt = "commit" \/ (stmt = "xa commit" /\ e = NoError)

\* the session executes one statement on connection conn
Exec(s, stmt, conn) ==
    LET idle == s.pool \ {conn}
        r == Backend(s.state[conn], s.pending[conn], stmt)
        inTx == IF stmt = "begin" THEN TRUE
                ELSE IF stmt = "commit" THEN FALSE ELSE s.inTx
        hold == ~Boundary(stmt, r.err) /\ HoldsConnection(s.keep, inTx)
    IN  [s EXCEPT !.issued = Append(@, stmt),
                  !.used = Append(@, conn),
                  !.errs = Append(@, r.err),
                  !.state[conn] = r.state,
                  !.pending[conn] = r.pending,
                  !.rows = @ \cup r.commit,
                  !.inTx = inTx,
                  !.held = IF hold THEN conn ELSE 0,
                  !.pool = IF hold THEN idle ELSE idle \cup {conn}]

\* a client connects to the namespace
Connect ==
    /\ InUse
    /\ ~session.open
    /\ \E capacity \in 1..PoolCapacity :
          session' = NewSession(cfg.SetForKeepSession, capacity)
    /\ UNCHANGED <<cfg, ctor, err, ns, built, closeCalled, closed,
                   statusMap, workers, ctxDone, crashed, caches, closing,
                   preClose, reply>>

\* the client issues a statement, which runs on the connection the session
\* holds or on any idle one of the pool (of the idle connections in the same
\* transaction state, which answer alike, the lowest stands for all)
Execute ==
    /\ InUse
    /\ session.open
    /\ Len(session.issued) < MaxStatements
    /\ \E stmt \in Statements,
          conn \in IF session.held # 0 THEN {session.held}
                   ELSE {c \in session.pool :
                           \A d \in session.pool :
                              (/\ session.state[d] = session.state[c]
                               /\ session.pending[d] = session.pending[c])
                              => c <= d} :
          /\ session' = Exec(session, stmt, conn)
          /\ reply' = [op |-> "exec", sql |-> stmt,
                       err |-> session'.errs[Len(session'.errs)]]
    /\ UNCHANGED <<cfg, ctor, err, ns, built, closeCalled, closed,
                   statusMap, workers, ctxDone, crashed, caches, closing,
                   preClose>>

\* another session reads the table
CheckRead ==
    /\ InUse
    /\ session.open
    /\ reply' = [op |-> "select", rows |-> session.rows, after |-> session.issued]
    /\ UNCHANGED <<cfg, ctor, err, ns, built, closeCalled, closed,
                   statusMap, workers, ctxDone, crashed, caches, closing,
                   preClose, session>>

Clients == Connect \/ Execute \/ CheckRead

SessionConfigs == {[BaseCfg EXCEPT !.SetForKeepSession = k] : k \in BOOLEAN}
SessionInit == InitWith(SessionConfigs)
SessionNext == Construction \/ Clients
SessionSpec == SessionInit /\ [][SessionNext]_vars

----------------------------------------------------------------------------
(* Properties                                                              *)

SlaveWorkers == {w \in DOMAIN workers : w[2] # "master"}

\* the pass of worker w over its pools has ended: after the store of the last
\* pool, or in the panic of the lag check on the nil connection, with which
\* the goroutine and the process end
TickDone(w) == workers[w].pc \in {"select", "panic"} /\ workers[w].ev.valid

AllStatus(w, status) == \A i \in 1..Len(statusMap[w]) : statusMap[w][i] = status

\* C1: when the probe of a slave pool ends UP, the threshold is not 0 and the
\* master is not DOWN, SHOW SLAVE STATUS is consulted and the pool is stored
\* DOWN whenever it reports lag above the threshold or a stopped thread
C1_LagDemotesHealthyProbe ==
    \A w \in SlaveWorkers :
        LET e == workers[w].ev IN
        (/\ e.valid
         /\ e.probe = UP
         /\ e.behind # 0
         /\ e.master # DOWN
         /\ ~e.raw.execErr
         /\ slaveIsLagBehand(e.raw, e.behind))
        => (e.consulted /\ e.stored = DOWN)

\* C2: when the master status is DOWN as a slave pool is evaluated, the
\* replication check is not run and the slave is stored with the status of its
\* probe: a slave whose ping succeeds is stored UP whatever SHOW SLAVE STATUS
\* would report
C2_MasterDownGate ==
    \A w \in SlaveWorkers :
        LET e == workers[w].ev IN
        (e.valid /\ e.master = DOWN)
        => (~e.consulted /\ e.stored = e.probe)

C2_Witness ==
    \E w \in SlaveWorkers :
        LET e == workers[w].ev IN
        /\ e.valid
        /\ e.master = DOWN
        /\ e.probe = UP
        /\ e.behind # 0
        /\ e.raw = Row(9999, FALSE, "No", "Yes")
        /\ e.stored = UP
        /\ statusMap[w][workers[w].idx] = UP

\* C3: after a pass in which the probe of every pool of the group succeeded
\* (replication healthy or lag check disabled), every status of the group is UP
C3_AllProbesSucceedAllUp ==
    \A w \in DOMAIN workers :
        (TickDone(w) /\ workers[w].tickUp) => AllStatus(w, UP)

C3_Witness ==
    \E w \in SlaveWorkers :
        /\ TickDone(w)
        /\ workers[w].tickUp
        /\ workers[w].ev.behind # 0
        /\ Len(statusMap[w]) >= 1
        /\ AllStatus(w, UP)

\* C4: after a pass in which every attempt on every pool of the group failed
\* until the loop gave up, every status of the group is DOWN
C4_AllProbesFailAllDown ==
    \A w \in DOMAIN workers :
        (TickDone(w) /\ workers[w].tickDown) => AllStatus(w, DOWN)

\* C5: once Close has returned, every supervisor goroutine has returned or
\* has the cancellation to observe
C5_CloseCancelsSupervisor ==
    closing.pc = "done" =>
        \A w \in DOMAIN workers : workers[w].pc = "exited" \/ ctxDone

\* C6 as claimed: once Close has returned, the four fingerprint caches and
\* the plan cache are empty
C6_AllCachesEmpty ==
    closing.pc = "done" => \A c \in DOMAIN caches : caches[c] = <<>>

\* C6: before Close returns it has cleared each of the four fingerprint
\* caches: each is empty when its Clear call returns, whatever it held, and
\* holds afterwards only what the sessions put in since; no step of Close
\* changes the plan cache, which keeps its entries
C6_FingerprintCachesEmpty ==
    [][closing' # closing =>
          /\ caches'.plan = caches.plan
          /\ \A c \in FingerprintCaches :
                IF closing'.cleared # closing.cleared
                   /\ c = ClearOrder[closing'.cleared]
                THEN caches'[c] = <<>>
                ELSE caches'[c] = caches[c]
          /\ closing'.pc = "done" =>
                {ClearOrder[k] : k \in 1..closing.cleared} = FingerprintCaches]_vars

C6_Witness ==
    /\ closing.pc = "done"
    /\ preClose
    /\ caches.plan # <<>>
    /\ caches.slow = <<>>

\* C7: when NewNamespace has returned an error, Close(false) has run and
\* Close was called on every slice built during the construction
C7_ErrorClosesBuiltSlices ==
    ctor = "error" => (closing.pc = "done" /\ built \subseteq closeCalled)

\* C8: when NewNamespace has returned an error, no supervisor goroutine is
\* left running: none was started, or they have returned or are cancelled
C8_ErrorLeavesNoSupervisor ==
    ctor = "error" =>
        \A w \in DOMAIN workers : workers[w].pc = "exited" \/ ctxDone

\* C9: on the step on which NewNamespace returns successfully, every
\* statusMap has one entry per pool and every entry is UP
C9_ReturnsAllUp ==
    [][(ctor # "ok" /\ ctor' = "ok") =>
          \A w \in DOMAIN statusMap' :
              /\ Len(statusMap'[w]) = Len(Pools(w))
              /\ \A i \in 1..Len(statusMap'[w]) : statusMap'[w][i] = UP]_vars

\* C10: with downAfterNoAlive = 8 and a pool that never gives a connection,
\* a probe attempts at 0, 1, 3 and 7 seconds, sleeping 1, 2 and 4 seconds
\* between the attempts, and ends DOWN within 8 seconds
C10_BackoffTimeline ==
    \A w \in DOMAIN workers :
        LET p == workers[w].p IN
        (/\ workers[w].pc = "classify"
         /\ ns.downAfterNoAlive = 8
         /\ p.limits = {8}
         /\ p.err
         /\ p.noConn)
        => (/\ p.attempts = <<0, 1, 3, 7>>
            /\ p.sleeps = <<1, 2, 4>>
            /\ InstanceStatus(p, ns.downAfterNoAlive) = DOWN
            /\ p.elapsed <= 8)

\* the sum of a sequence of numbers
RECURSIVE Sum(_)
Sum(q) == IF q = <<>> THEN 0 ELSE Head(q) + Sum(Tail(q))

\* the downAfterNoAlive NewNamespace settles on for the configuration
Configured == IF cfg.DownAfterNoAlive = 0 THEN defaultTimeAfterNoAlive
              ELSE cfg.DownAfterNoAlive

\* the sleeps of a probe start at 1 and double
Doubling(q) == \A k \in 1..Len(q) : q[k] = 2 ^ (k - 1)

\* a probe whose every attempt failed has left the loop
GaveUp(w) == workers[w].pc = "classify" /\ workers[w].p.err

\* C11 as stated: for every configured downAfterNoAlive >= 1 the sleeps of a
\* probe of a failing pool are 1, 2, 4, ..., none of them reaches
\* downAfterNoAlive, and their sum is at most downAfterNoAlive.
C11_SleepsSumWithinDownAfter ==
    \A w \in DOMAIN workers :
        LET q == workers[w].p.sleeps IN
        /\ Doubling(q)
        /\ \A k \in 1..Len(q) : q[k] < Configured
        /\ Sum(q) <= Configured

\* C11, amended: for every configured downAfterNoAlive >= 1 the sleeps of a
\* probe of a failing pool are 1, 2, 4, ..., the probe gives up before any
\* sleep that would reach downAfterNoAlive, and the sum of the sleeps is less
\* than twice downAfterNoAlive.
C11_SleepsBelowDownAfter ==
    \A w \in DOMAIN workers :
        LET q == workers[w].p.sleeps IN
        /\ Doubling(q)
        /\ \A k \in 1..Len(q) : q[k] < Configured
        /\ Sum(q) < 2 * Configured
        /\ GaveUp(w) /\ workers[w].p.limits = {Configured}
              => workers[w].p.sleepTime >= Configured

\* a probe under downAfterNoAlive = 5 has given up after sleeping 1, 2 and 4
C11_Witness ==
    \E w \in DOMAIN workers :
        /\ cfg.DownAfterNoAlive = 5
        /\ GaveUp(w)
        /\ workers[w].p.sleeps = <<1, 2, 4>>

\* C12: IsSQLAllowed(sql) is false exactly when md5(fingerprint(sql)) is
\* among the digests of the fingerprints of the trimmed, non-empty blacklist
\* entries; with an empty blacklist it is true for every statement.
C12_BlacklistByFingerprint ==
    reply.op = "IsSQLAllowed" =>
        /\ reply.allowed =
              (GetMd5(GetFingerprint(reply.sql)) \notin
                {GetMd5(GetFingerprint(TrimSpace(cfg.BlackSQL[k]))) :
                    k \in {j \in 1..Len(cfg.BlackSQL) :
                              TrimSpace(cfg.BlackSQL[j]) # <<>>}})
        /\ cfg.BlackSQL = <<>> => reply.allowed

\* a statement with a literal is refused by a padded entry with a placeholder
C12_Witness ==
    /\ reply.op = "IsSQLAllowed"
    /\ cfg.BlackSQL = <<<<" ">> \o sqlQ \o <<" ">>>>
    /\ reply.sql = sqlL
    /\ ~reply.allowed

\* the allowed databases: the keys of AllowedDBS, trimmed
AllowedNames == {TrimSpace(k) : k \in DOMAIN cfg.AllowedDBS}

\* C13: on a successfully constructed namespace GetDefaultPhyDB(d) succeeds
\* for every allowed database d and returns d when DefaultPhyDBS is empty and
\* the physical name configured for d (trimmed like the keys) otherwise;
\* GetDefaultPhyDB("") returns "" without error; a name with no mapping
\* returns an error.
C13_DefaultPhyDB ==
    reply.op = "GetDefaultPhyDB" =>
        LET d == reply.dbname
            mapped == {k \in DOMAIN cfg.DefaultPhyDBS : TrimSpace(k) = d}
        IN  /\ d = <<>> => reply.phyDB = <<>> /\ ~reply.err
            /\ d # <<>> /\ d \in AllowedNames =>
                  /\ ~reply.err
                  /\ IF DOMAIN cfg.DefaultPhyDBS = {} THEN reply.phyDB = d
                     ELSE \E k \in mapped :
                             reply.phyDB = TrimSpace(cfg.DefaultPhyDBS[k])
            /\ d # <<>> /\ mapped = {}
                 /\ (DOMAIN cfg.DefaultPhyDBS = {} => d \notin AllowedNames)
                 => reply.err

\* an allowed database with a physical name of its own has been looked up
C13_Witness ==
    /\ reply.op = "GetDefaultPhyDB"
    /\ reply.dbname = dbA
    /\ cfg.DefaultPhyDBS = (dbA \o <<" ">> :> <<" ", "A">>)
    /\ reply.phyDB = <<"A">>
    /\ ~reply.err

\* the plan cached under the key of (db, sql), "nil" when there is none
CachedPlan(c, db, sql) ==
    LET v == CacheGet(c, PlanKey(db, sql)) IN IF v.ok THEN v.value ELSE "nil"

\* C14: SetCachedPlan is set-if-absent: while a key stays in the plan cache no
\* later SetCachedPlan of the same (db, sql) replaces its plan, whichever
\* session issues it, and GetCachedPlan returns the plan that was set first.
C14_SetIfAbsent ==
    [][/\ \A db \in PlanDBs, sql \in PlanSQLs :
            /\ CachedPlan(caches.plan, db, sql) # "nil"
            /\ CachedPlan(caches'.plan, db, sql) # "nil"
            => CachedPlan(caches'.plan, db, sql) = CachedPlan(caches.plan, db, sql)
       /\ reply'.op = "GetCachedPlan" /\ reply' # reply =>
            /\ reply'.plan = CachedPlan(caches.plan, reply'.db, reply'.sql)
            /\ reply'.ok = (reply'.plan # "nil")]_vars

\* p2 has just been set under a key that holds p1, and p1 is still there
C14_Witness ==
    /\ reply.op = "SetCachedPlan"
    /\ reply.plan = "p2"
    /\ CachedPlan(caches.plan, reply.db, reply.sql) = "p1"

\* C15: Close(true) sleeps namespaceDelayClose seconds before it releases
\* anything: until then no slice is closed and no step of Close changes a
\* cache, and it returns no earlier than that; Close(false) starts on the
\* slices without waiting.
C15_DelayBeforeRelease ==
    [][/\ closing'.delay /\ closing'.waited < namespaceDelayClose =>
            /\ closing'.pc = "sleep"
            /\ closeCalled' = {} /\ closed' = {}
            /\ closing' # closing => caches' = caches
       /\ closing'.delay /\ closing'.pc = "done" =>
            closing'.waited >= namespaceDelayClose
       /\ closing.pc = "idle" /\ closing'.pc # "idle" /\ ~closing'.delay =>
            closing'.pc = "slices" /\ closing'.waited = 0
       /\ ~closing'.delay => closing'.waited = 0]_vars

\* Close(true) has slept, closed a slice and returned
C15_Witness ==
    /\ closing.pc = "done"
    /\ closing.delay
    /\ closing.waited = namespaceDelayClose
    /\ closeCalled # {}

\* C16: whatever subset of the slices fails to close, Close has attempted
\* Slice.Close on every slice when it returns, and it has gone on to clear
\* the fingerprint caches: the first Clear call comes after the loop over the
\* slices and the last one before the return.
C16_EverySliceAttempted ==
    /\ closing.cleared > 0 => closing.todo = {} /\ closeCalled = SliceSet(ns)
    /\ closing.pc = "done" /\ ctor = "ok" =>
          /\ closeCalled = SliceSet(ns)
          /\ closed \subseteq closeCalled
          /\ closing.cleared = Len(ClearOrder)

\* Close has returned from a namespace of two slices after both Slice.Close
\* calls failed, with caches that held entries
C16_Witness ==
    /\ closing.pc = "done"
    /\ ctor = "ok"
    /\ Cardinality(SliceSet(ns)) = 2
    /\ closeCalled = SliceSet(ns)
    /\ closed = {}
    /\ preClose

\* C17: a panic inside a running worker cancels the shared context, so that
\* all the workers terminate.
C17_PanicCancelsContext ==
    (\E w \in DOMAIN workers : workers[w].pc = "panic") => ctxDone

\* C18: once the close path has signalled cancellation (Close has returned),
\* a worker that is in the middle of a probe returns and leaves the statusMap
\* entries as they were: no status is written after the cancellation.
C18_NoStoreAfterCancel ==
    [][closing.pc = "done" /\ ctor = "ok" =>
          \A w \in DOMAIN workers :
              workers[w].pc \in {"probe", "classify", "gate", "behind",
                                 "lag", "store"} =>
                  statusMap'[w] = statusMap[w]]_vars

\* the test scripts of the keep-session suite
XACommitted == <<"xa start", "insert", "xa end", "xa prepare", "xa commit">>
XAUnprepared == <<"xa start", "insert", "xa end", "xa commit">>
LocalCommitted == <<"begin", "insert", "commit">>
XAEndAlone == <<"xa start", "xa end">>

\* C19: with SetForKeepSession = true the statements of a session from the
\* start of a transaction to its end all execute, in issue order, on the same
\* backend connection: xa start; insert; xa end; xa prepare; xa commit
\* commits the row, so that a later read on another session sees it (as does
\* begin; insert; commit), and xa commit directly after xa end returns the
\* backend's error 1399 for the IDLE state.
C19_KeepSessionHoldsConnection ==
    session.open /\ session.keep =>
        /\ \A k \in 2..Len(session.issued) :
              ~Boundary(session.issued[k - 1], session.errs[k - 1]) =>
                  session.used[k] = session.used[k - 1]
        /\ session.issued \in {XACommitted, LocalCommitted} =>
              /\ \A k \in 1..Len(session.errs) : session.errs[k] = NoError
              /\ "row" \in session.rows
        /\ reply.op = "select" /\ reply.after \in {XACommitted, LocalCommitted} =>
              "row" \in reply.rows
        /\ session.issued = XAUnprepared =>
              /\ session.errs[4] = RMFail("IDLE")
              /\ "row" \notin session.rows

\* the committed XA script has run and another session has read the row
C19_Witness ==
    /\ session.open /\ session.keep
    /\ session.issued = XACommitted
    /\ reply.op = "select" /\ reply.after = XACommitted
    /\ "row" \in reply.rows

C21_SingleWriter ==
    [][\A g \in DOMAIN statusMap \cap DOMAIN statusMap' :
          /\ Len(statusMap'[g]) = Len(statusMap[g])
          /\ \A i \in 1..Len(statusMap[g]) :
                statusMap'[g][i] # statusMap[g][i] =>
                    /\ g \in DOMAIN workers
                    /\ workers[g].pc = "store"
                    /\ workers[g].idx = i
                    /\ workers'[g].pc = "select" \/ workers'[g].idx > i
                    /\ \A h \in DOMAIN statusMap \ {g} : statusMap'[h] = statusMap[h]
                    /\ \A j \in 1..Len(statusMap[g]) :
                          j # i => statusMap'[g][j] = statusMap[g][j]]_vars

\* a worker has stored DOWN over the initial UP of its pool, Close has
\* returned and the entry is as the worker left it
C21_Witness ==
    \E w \in DOMAIN workers :
        /\ workers[w].ev.valid
        /\ workers[w].ev.stored = DOWN
        /\ statusMap[w][workers[w].idx] = DOWN
        /\ closing.pc = "done"

\* the names of the slices of the configuration, trimmed
SliceNames == {TrimSpace(cfg.Slices[k].Name) : k \in 1..Len(cfg.Slices)}

\* a GlobalSequences entry names a slice that is not among them
UnknownSequenceSlice ==
    \E i \in 1..Len(cfg.GlobalSequences) :
        cfg.GlobalSequences[i].SliceName \notin SliceNames

\* C22: NewNamespace fails with an error whenever a GlobalSequences entry
\* names a slice that is not among the constructed slices (whose names are
\* trimmed); when it succeeds every sequence is registered and refers to an
\* existing slice.
C22_SequencesNameSlices ==
    [][/\ ctor = "sequences" /\ ctor' # ctor =>
            IF UnknownSequenceSlice THEN ctor' = "error"
            ELSE ctor' # "error" /\ ns'.sequences = SequenceNames(cfg)
       /\ ctor' = "ok" =>
            /\ ~UnknownSequenceSlice'
            /\ \A i \in 1..Len(cfg'.GlobalSequences) :
                  cfg'.GlobalSequences[i].SliceName \in DOMAIN ns'.slices
            /\ ns'.sequences = SequenceNames(cfg')]_vars

\* NewNamespace has failed on a sequence whose slice name, untrimmed, is not
\* the name of the one slice
C22_Witness ==
    /\ ctor = "error"
    /\ cfg.GlobalSequences = <<Sequence(<<" ">> \o s0)>>
    /\ SliceNames = {s0}
    /\ DOMAIN ns.slices = {s0}

\* C24: whatever MaxClientConnections is configured (zero, negative or
\* positive), the namespace's maxClientConnections is the default once
\* NewNamespace has assigned it: the configured value has no effect.
C24_MaxClientConnectionsDefault ==
    ctor \in {"downAfter", "default", "finish", "ok"} =>
        ns.maxClientConnections = defaultMaxClientConnections

\* a namespace configured with 5 client connections has been constructed
C24_Witness ==
    /\ ctor = "ok"
    /\ cfg.MaxClientConnections = 5
    /\ ns.maxClientConnections = defaultMaxClientConnections

\* C23: after Close has closed a slice, no worker makes an attempt on a pool
\* of that slice.
C23_NoProbeOfClosedSlice ==
    [][\A w \in DOMAIN workers \cap DOMAIN workers' :
          w[1] \in closed =>
              Len(workers'[w].p.attempts) <= Len(workers[w].p.attempts)]_vars

\* C25: the connection a probe holds when getInstanceStatus returns has been
\* recycled exactly once at the end of the loop body, neither twice nor not
\* at all.
C25_RecycledOnce ==
    \A w \in DOMAIN workers :
        workers[w].ev.valid /\ workers[w].ev.conn # "nil" =>
            workers[w].ev.recycles = 1

\* C26: whenever a worker issues SHOW SLAVE STATUS it holds a connection of
\* this tick that passed ping or reconnect and is not yet recycled.
C26_LagCheckOnHeldConnection ==
    \A w \in DOMAIN workers :
        workers[w].ev.valid /\ workers[w].ev.consulted =>
            workers[w].ev.conn = "held"

\* C27: no probe runs with an unset policy value: every value of
\* downAfterNoAlive a worker reads is the finalized one, and so is every
\* secondsBehindMaster.
C27_NoUnsetPolicyRead ==
    cfg.DownAfterNoAlive >= 0 =>
        \A w \in DOMAIN workers :
            /\ workers[w].p.limits \subseteq {Configured}
            /\ workers[w].ev.thresholds \subseteq {cfg.SecondsBehindMaster}

\* the process runs, pool i of the group of w is there and no attempt of its
\* current probe has failed
Succeeding(w, i) ==
    /\ ~crashed
    /\ w \in DOMAIN workers
    /\ i <= Len(statusMap[w])
    /\ ~(workers[w].idx = i /\ workers[w].p.err)

\* C28: recovery is eventually observed: a pool whose attempts all succeed
\* from some point on is from some point on stored UP, whatever the other
\* pools of its group do.
C28_RecoveryObserved ==
    \A w \in Goroutines : \A i \in 1..MaxSlavePools :
        <>[]Succeeding(w, i) =>
            <>[](w \in DOMAIN statusMap /\ i <= Len(statusMap[w])
                 /\ statusMap[w][i] = UP)

\* C29: for every finalized downAfterNoAlive >= 1 a probe makes at least one
\* acquisition attempt before it classifies the instance.
C29_AttemptBeforeClassify ==
    \A w \in DOMAIN workers :
        /\ workers[w].pc = "classify"
        /\ Configured >= 1
        /\ workers[w].p.limits = {Configured}
        => workers[w].p.attempts # <<>>

====
